---- MODULE Spec2Model ----
(***************************************************************************)
(* State-machine model of the shop application (ecom/Ecom/shop): the       *)
(* relational tables Products, Customer and Order, the per-session cart,   *)
(* and the views that read and write them.  Every view is one action,      *)
(* except checkout, whose database statements are separate steps: Django   *)
(* runs each statement in autocommit mode, so statements of concurrent     *)
(* requests interleave between them.                                       *)
(***************************************************************************)
EXTENDS Integers, Sequences, FiniteSets, TLC

\* ------------------------------------------------------------ bounds
\* Number of requests the site serves in one explored run.
MaxRequests == 3

\* ------------------------------------------------------------ universe
ProductIds == {1, 2}
Users == {"alice", "bob"}
Anonymous == "anonymous"
Sessions == {"s1", "s2"}
Requests == {"r1", "r2"}
\* Prices in hundredths (DecimalField with decimal_places=2).
Prices == {500, 1000}
Methods == {"GET", "POST"}
\* The quantity parameter of add_to_cart: int() accepts any integer.
AddQuantities == {-1, 0, 1, 3}
\* The stock a product starts with, and the stock the product form is given.
InitialStocks == {1, 3}
StockInputs == {2}

\* The catalogue's names when the run starts, and the names that
\* product_update submits.
InitialName == [i \in ProductIds |-> IF i = 1 THEN "lamp" ELSE "desk"]
NameInputs == {"desk", "table"}

\* The catalogue's prices when the run starts.
InitialPrice == [i \in ProductIds |-> IF i = 1 THEN 1000 ELSE 500]

\* User rows are named by the username they were created with (Users: the
\* accounts that exist when the run starts); rows inserted later take the
\* first free key of NewUsers.  The username itself is a field of the row.
NewUsers == {"new1", "new2"}
UserKeys == Users \cup NewUsers
NoKey == "none"
\* The usernames the register and user forms are given.
Usernames == {"alice", "carol"}

\* Category ids; a product's Category is one of them or null (NoCategory).
CategoryIds == {1, 2}
NoCategory == 0
\* The categories of the catalogue when the run starts.
InitialCategory == [i \in ProductIds |-> IF i = 1 THEN 1 ELSE NoCategory]

\* Order.status choices.
StatusChoices == {"pending", "processing", "shipped", "delivered", "cancelled"}
\* The status values the order form is given: the choices, and one that is
\* not a choice.
StatusInputs == StatusChoices \cup {"refunded"}
\* The endpoints that take a POST.
PostViews == {"product_update", "product_delete", "order_update_status",
              "checkout", "register", "user_create", "user_update",
              "login_view"}

VARIABLES
    products,   \* Products table: id -> row (exists = FALSE: no such row)
    customers,  \* Customer table: sequence of rows, Customer.id = index
    orders,     \* Order table: sequence of rows, Order.id = index
    session,    \* session store: session id -> authenticated user and cart
    req,        \* requests in flight in the checkout view: locals and position
    served,     \* number of requests accepted so far
    users,      \* auth User table: key -> row (exists = FALSE: no such row)
    acct,       \* requests in flight in register, user_create, user_update
    response,   \* the view that took the latest request, and its answer
    categories, \* Category table: the ids that have a row
    mgmt        \* requests in flight in category_delete

vars == <<products, customers, orders, session, req, served, users, acct,
          response, categories, mgmt>>

\* ------------------------------------------------------------ helpers
NoRow == [exists |-> FALSE, name |-> "", price |-> 0, stock |-> 0,
          category |-> NoCategory]

\* str(id): the cart is keyed by the decimal text of the product id.
StrId(id) == ToString(id)

\* The primary key a cart key resolves to in Products.objects.get(id=key).
IntId(key) == CHOOSE i \in ProductIds : ToString(i) = key

\* str(product.price): the decimal text "w.ff", kept as <<w, ff>>.
PriceStr(price) == <<price \div 100, price % 100>>

\* float(item['price']), in hundredths.
Float(text) == text[1] * 100 + text[2]

CartKeys(cart) == {cart[i].id : i \in 1..Len(cart)}

CartIndex(cart, key) == CHOOSE i \in 1..Len(cart) : cart[i].id = key

CartQuantity(cart, key) ==
    IF key \in CartKeys(cart) THEN cart[CartIndex(cart, key)].quantity ELSE 0

\* CartAdd without the test for a present key: every call appends an entry.
CartAddDuplicating(cart, id, row, quantity) ==
    Append(cart, [id |-> StrId(id), name |-> row.name,
                  price |-> PriceStr(row.price), quantity |-> quantity])

\* CartAdd that refreshes the entry of a present key from the product row.
CartAddRefreshing(cart, id, row, quantity) ==
    IF StrId(id) \in CartKeys(cart)
    THEN [cart EXCEPT ![CartIndex(cart, StrId(id))] =
            [id |-> StrId(id), name |-> row.name,
             price |-> PriceStr(row.price), quantity |-> @.quantity + quantity]]
    ELSE Append(cart, [id |-> StrId(id), name |-> row.name,
                       price |-> PriceStr(row.price), quantity |-> quantity])

\* The dictionary update of add_to_cart.
CartAdd(cart, id, row, quantity) ==
    IF StrId(id) \in CartKeys(cart)
    THEN [cart EXCEPT ![CartIndex(cart, StrId(id))].quantity = @ + quantity]
    ELSE Append(cart, [id |-> StrId(id), name |-> row.name,
                       price |-> PriceStr(row.price), quantity |-> quantity])

\* item['total'] = float(item['price']) * item['quantity'], for every item.
CartViewItems(cart) ==
    [i \in 1..Len(cart) |->
        [id |-> cart[i].id, name |-> cart[i].name, price |-> cart[i].price,
         quantity |-> cart[i].quantity,
         total |-> Float(cart[i].price) * cart[i].quantity]]

\* del cart[key]
CartRemove(cart, key) ==
    SelectSeq(cart, LAMBDA e : e.id # key)

RECURSIVE CartTotalAtCatalogPrice(_)
\* CartTotal with the product's current price in place of the cart's snapshot.
CartTotalAtCatalogPrice(cart) ==
    IF cart = <<>> THEN 0
    ELSE CartTotalAtCatalogPrice(SubSeq(cart, 1, Len(cart) - 1))
         + products[IntId(cart[Len(cart)].id)].price * cart[Len(cart)].quantity

RECURSIVE CartTotal(_)
\* total += float(item['price']) * item['quantity'], over the cart's items.
CartTotal(cart) ==
    IF cart = <<>> THEN 0
    ELSE CartTotal(SubSeq(cart, 1, Len(cart) - 1))
         + Float(cart[Len(cart)].price) * cart[Len(cart)].quantity

\* Products.name is unique: no other product has the name.
NameFree(id, name) ==
    \A i \in ProductIds \ {id} : ~(products[i].exists /\ products[i].name = name)

\* The foreign key Products.Category: null, or the id of a Category row.
CategoryValid(category) ==
    category = NoCategory \/ category \in categories

\* The address of a Customer: the six fields that the checkout view and
\* CustomerForm write. All are blank=True, so a new row holds "" everywhere.
AddressFields == {"phone", "address", "city", "state", "postal_code", "country"}
BlankAddress == [f \in AddressFields |-> ""]
StoredAddress == [f \in AddressFields |-> "old"]

\* request.POST of a checkout: the address fields submitted, with their
\* values. NoFields is a POST that carries none of them.
NoFields == [f \in {} |-> ""]
CheckoutForms ==
    {NoFields,
     [f \in {"phone"} |-> "new"],
     [f \in AddressFields \ {"phone"} |-> IF f = "state" THEN "" ELSE "new"]}

\* request.POST.get(field, default)
PostGet(form, field, default) ==
    IF field \in DOMAIN form THEN form[field] ELSE default

\* The cleaned data of a CustomerForm: every field, "" when not submitted.
CustomerForms == {[f \in AddressFields |-> IF f = "state" THEN "" ELSE "staff"]}

\* user.customer_profile: the ids of the Customer rows of a user.
ProfilesOf(user) == {i \in 1..Len(customers) : customers[i].user = user}

\* A request slot of the checkout view: the serial number of the request it
\* holds (seq), its position (pc), its session and locals (user, cart, total,
\* customer, order, the loop index idx, product), the response it gave
\* (result), and what happened on the way: overlap, whether another checkout
\* POST ran during it; exact, whether every product.save() of it lowered the
\* stored stock by the cart quantity; stale, whether the session row was
\* replaced (login, logout) since it began.
IdleReq == [seq |-> 0, pc |-> "idle", sid |-> "s1", user |-> Anonymous,
            cart |-> <<>>, total |-> 0, customer |-> 0, order |-> 0,
            idx |-> 0, product |-> NoRow, result |-> "none",
            overlap |-> FALSE, exact |-> TRUE, stale |-> FALSE,
            form |-> NoFields, address |-> BlankAddress]

\* Free request slots are interchangeable: a request takes the first.
Slot == [r \in Requests |-> IF r = "r1" THEN 1 ELSE 2]

InFlight(r) == req[r].pc \notin {"idle", "done"}

\* A new request is accepted.
Serve == served < MaxRequests /\ served' = served + 1

\* The view answers the request.
Respond(view, status) == response' = [view |-> view, status |-> status]

\* auth User rows.
NoUser == [exists |-> FALSE, username |-> ""]

\* User.objects.filter(username=username).exists(), and the unique
\* constraint of auth_user.username.
UsernameTaken(username) ==
    \E u \in UserKeys : users[u].exists /\ users[u].username = username

\* A request slot of register, user_create and user_update: the view, its
\* position (pc), the username submitted, the User row it works on, and the
\* response it gave.
IdleAcct == [pc |-> "idle", view |-> "none", method |-> "POST",
             username |-> "", user |-> NoKey, result |-> "none",
             address |-> BlankAddress]

AcctInFlight(a) == acct[a].pc \notin {"idle", "done"}

\* Free slots are interchangeable: a request takes the first.
AcctSlot(a) ==
    /\ ~AcctInFlight(a)
    /\ \A b \in Requests : ~AcctInFlight(b) => Slot[a] <= Slot[b]

AcctFinish(a, result) ==
    acct' = [acct EXCEPT ![a].pc = "done", ![a].result = result]

Finish(r, result) ==
    req' = [req EXCEPT ![r].pc = "done", ![r].result = result]

\* The session row of s is replaced: requests that loaded it hold a stale key.
Invalidate(s) ==
    req' = [r \in Requests |->
              IF InFlight(r) /\ req[r].sid = s
              THEN [req[r] EXCEPT !.stale = TRUE] ELSE req[r]]

\* A request slot of category_delete: its position (pc), the category, the
\* products the cascade has collected, and the response it gave.
IdleMgmt == [pc |-> "idle", category |-> NoCategory, collected |-> {},
             result |-> "none"]

MgmtInFlight(m) == mgmt[m].pc \notin {"idle", "done"}

\* Free slots are interchangeable: a request takes the first.
MgmtSlot(m) ==
    /\ ~MgmtInFlight(m)
    /\ \A n \in Requests : ~MgmtInFlight(n) => Slot[m] <= Slot[n]

\* ------------------------------------------------------------ initial state
Init ==
    /\ \E n \in InitialStocks :
          products = [i \in ProductIds |->
                        [exists |-> TRUE, name |-> InitialName[i],
                      price |-> InitialPrice[i],
                         stock |-> IF i = 1 THEN n ELSE 3,
                         category |-> InitialCategory[i]]]
    /\ customers = <<[user |-> "alice", address |-> BlankAddress]>>
    /\ orders = <<>>
    /\ session = [s \in Sessions |->
                    [user |-> IF s = "s1" THEN "alice" ELSE "bob",
                     hasCart |-> FALSE, cart |-> <<>>]]
    /\ req = [r \in Requests |-> IdleReq]
    /\ served = 0
    /\ users = [u \in UserKeys |->
                  IF u \in Users THEN [exists |-> TRUE, username |-> u]
                  ELSE NoUser]
    /\ acct = [a \in Requests |-> IdleAcct]
    /\ response = [view |-> "none", status |-> "none"]
    /\ categories = CategoryIds
    /\ mgmt = [m \in Requests |-> IdleMgmt]

\* ------------------------------------------------------------ cart views
\* add_to_cart with Products.objects.filter(id=id).first() in place of
\* get_object_or_404: a missing product still gets its entry.
add_to_cart_unchecked(s, id, quantity) ==
    /\ Serve
    /\ session' = [session EXCEPT
            ![s].hasCart = TRUE,
            ![s].cart = CartAdd(@, id, products[id], quantity)]
    /\ Respond("add_to_cart", "redirect")
    /\ UNCHANGED <<products, customers, orders, req, users,
                   acct, categories, mgmt>>

add_to_cart(s, id, quantity) ==
    /\ Serve
    /\ IF products[id].exists
       THEN /\ session' = [session EXCEPT
                    ![s].hasCart = TRUE,
                    ![s].cart = CartAdd(@, id, products[id], quantity)]
            /\ Respond("add_to_cart", "redirect")
       ELSE \* get_object_or_404 raises after session['cart'] = {} was set
            /\ session' = [session EXCEPT ![s].hasCart = TRUE]
            /\ Respond("add_to_cart", "not_found")
    /\ UNCHANGED <<products, customers, orders, req, users,
                   acct, categories, mgmt>>

\* remove_from_cart with the two membership tests left out: del cart[key]
\* on a missing key (or session['cart'] on a session without a cart) raises
\* KeyError, and the session is not saved with a 500 response.
remove_from_cart_unguarded(s, id) ==
    /\ Serve
    /\ IF session[s].hasCart /\ StrId(id) \in CartKeys(session[s].cart)
       THEN /\ session' = [session EXCEPT ![s].cart = CartRemove(@, StrId(id))]
            /\ Respond("remove_from_cart", "redirect")
       ELSE /\ UNCHANGED session
            /\ Respond("remove_from_cart", "server_error")
    /\ UNCHANGED <<products, customers, orders, req, users,
                   acct, categories, mgmt>>

remove_from_cart(s, id) ==
    /\ Serve
    /\ session' = IF session[s].hasCart /\ StrId(id) \in CartKeys(session[s].cart)
                  THEN [session EXCEPT ![s].cart = CartRemove(@, StrId(id))]
                  ELSE session
    /\ Respond("remove_from_cart", "redirect")
    /\ UNCHANGED <<products, customers, orders, req, users,
                   acct, categories, mgmt>>

\* cart_view whose session is saved with the response (session.modified set).
cart_view_saving(s) ==
    /\ Serve
    /\ session' = [session EXCEPT ![s].cart = CartViewItems(@)]
    /\ Respond("cart_view", "ok")
    /\ UNCHANGED <<products, customers, orders, req, users,
                   acct, categories, mgmt>>

\* The view writes item['total'] into the entries of the cart it loaded and
\* renders them; it does not set session.modified, so the session row is not
\* saved with the response and keeps the entries as they were.
cart_view(s) ==
    /\ Serve
    /\ UNCHANGED session
    /\ Respond("cart_view", "ok")
    /\ UNCHANGED <<products, customers, orders, req, users,
                   acct, categories, mgmt>>

\* ------------------------------------------------------------ authentication
login_view(s, u) ==
    /\ Serve
    /\ session[s].user # u
    /\ session' = [session EXCEPT ![s] =
            IF session[s].user = Anonymous
            THEN [@ EXCEPT !.user = u]
            ELSE [user |-> u, hasCart |-> FALSE, cart |-> <<>>]]
    /\ Invalidate(s)
    /\ Respond("login_view", "redirect")
    /\ UNCHANGED <<products, customers, orders, users,
                   acct, categories, mgmt>>

logout_view(s) ==
    /\ Serve
    /\ session[s].user # Anonymous
    /\ session' = [session EXCEPT ![s] =
            [user |-> Anonymous, hasCart |-> FALSE, cart |-> <<>>]]
    /\ Invalidate(s)
    /\ Respond("logout_view", "redirect")
    /\ UNCHANGED <<products, customers, orders, users,
                   acct, categories, mgmt>>

\* ------------------------------------------------------------ management
\* POST: ProductForm is valid when no other product has the name submitted
\* and the Category submitted is empty or the id of a Category row, and
\* form.save() writes the fields of the form; otherwise the form is rendered
\* again.
product_update(id, name, price, stock, category) ==
    /\ Serve
    /\ products[id].exists
    /\ IF NameFree(id, name) /\ CategoryValid(category)
       THEN /\ products' = [products EXCEPT ![id].name = name,
                                            ![id].price = price,
                                            ![id].stock = stock,
                                            ![id].category = category]
            /\ Respond("product_update", "redirect")
       ELSE /\ UNCHANGED products
            /\ Respond("product_update", "form_errors")
    /\ UNCHANGED <<customers, orders, session, req, users,
                   acct, categories, mgmt>>

\* category_delete up to its first write: get_object_or_404(Category, id=id)
\* and, for a POST, the part of category.delete() that collects the products
\* of the category.
category_delete(m, c, method) ==
    /\ Serve
    /\ MgmtSlot(m)
    /\ mgmt' = [mgmt EXCEPT ![m] =
            IF c \notin categories
            THEN [IdleMgmt EXCEPT !.pc = "done", !.category = c,
                                  !.result = "not_found"]
            ELSE IF method = "GET"
            THEN [IdleMgmt EXCEPT !.pc = "done", !.category = c,
                                  !.result = "confirm"]
            ELSE [IdleMgmt EXCEPT
                    !.pc = "delete", !.category = c,
                    !.collected = {id \in ProductIds :
                                     /\ products[id].exists
                                     /\ products[id].category = c}]]
    /\ Respond("category_delete", "accepted")
    /\ UNCHANGED <<products, customers, orders, session, req, users, acct,
                   categories>>

\* The rest of category.delete(), one transaction: the rows of the products
\* collected are deleted by id, with their order links, and then the
\* Category row; a product that refers to the category and was not
\* collected makes the foreign key fail (IntegrityError, rolled back).
category_delete_commit(m) ==
    /\ mgmt[m].pc = "delete"
    /\ LET c == mgmt[m].category
           gone == mgmt[m].collected
       IN IF \E id \in ProductIds \ gone :
                products[id].exists /\ products[id].category = c
          THEN /\ mgmt' = [mgmt EXCEPT ![m].pc = "done",
                                       ![m].result = "server_error"]
               /\ UNCHANGED <<products, orders, categories>>
          ELSE /\ products' = [id \in ProductIds |->
                                 IF id \in gone THEN NoRow ELSE products[id]]
               /\ orders' = [o \in 1..Len(orders) |->
                               [orders[o] EXCEPT !.products = @ \ gone]]
               /\ categories' = categories \ {c}
               /\ mgmt' = [mgmt EXCEPT ![m].pc = "done",
                                       ![m].result = "redirect"]
    /\ UNCHANGED <<customers, session, req, served, users, acct, response>>

product_delete(id) ==
    /\ Serve
    /\ products[id].exists
    /\ products' = [products EXCEPT ![id] = NoRow]
    /\ orders' = [o \in 1..Len(orders) |->
                    [orders[o] EXCEPT !.products = @ \ {id}]]
    /\ Respond("product_delete", "redirect")
    /\ UNCHANGED <<customers, session, req, users, acct, categories, mgmt>>

\* order_update_status with a form that does not validate the choice.
order_update_status_unvalidated(o, status) ==
    /\ Serve
    /\ o \in 1..Len(orders)
    /\ orders' = [orders EXCEPT ![o].status = status]
    /\ Respond("order_update_status", "redirect")
    /\ UNCHANGED <<products, customers, session, req, users,
                   acct, categories, mgmt>>

\* POST: OrderForm (fields = ['status']) is valid when the value is one of
\* the field's choices, and form.save() writes it; otherwise the form is
\* rendered again.
order_update_status(o, status) ==
    /\ Serve
    /\ o \in 1..Len(orders)
    /\ IF status \in StatusChoices
       THEN /\ orders' = [orders EXCEPT ![o].status = status]
            /\ Respond("order_update_status", "redirect")
       ELSE /\ UNCHANGED orders
            /\ Respond("order_update_status", "form_errors")
    /\ UNCHANGED <<products, customers, session, req, users,
                   acct, categories, mgmt>>

\* ------------------------------------------------------------ accounts
\* The key an inserted User row takes.
FreeKeys == {u \in NewUsers : ~users[u].exists}
NewKey == IF "new1" \in FreeKeys THEN "new1" ELSE "new2"

\* register, POST with matching passwords, up to the test
\* User.objects.filter(username=username).exists().
register(a, username) ==
    /\ Serve
    /\ AcctSlot(a)
    /\ acct' = [acct EXCEPT ![a] =
            IF UsernameTaken(username)
            THEN [IdleAcct EXCEPT !.pc = "done", !.view = "register",
                                  !.username = username,
                                  !.result = "username_exists"]
            ELSE [IdleAcct EXCEPT !.pc = "create_user", !.view = "register",
                                  !.username = username]]
    /\ Respond("register", "accepted")
    /\ UNCHANGED <<products, customers, orders, session, req,
                   users, categories, mgmt>>

\* user_create, POST, up to user_form.is_valid(): the ModelForm reports a
\* username that is taken as a form error.
user_create(a, username, address) ==
    /\ Serve
    /\ AcctSlot(a)
    /\ acct' = [acct EXCEPT ![a] =
            IF UsernameTaken(username)
            THEN [IdleAcct EXCEPT !.pc = "done", !.view = "user_create",
                                  !.username = username,
                                  !.result = "form_errors"]
            ELSE [IdleAcct EXCEPT !.pc = "create_user", !.view = "user_create",
                                  !.username = username,
                                  !.address = address]]
    /\ Respond("user_create", "accepted")
    /\ UNCHANGED <<products, customers, orders, session, req,
                   users, categories, mgmt>>

\* User.objects.create_user(...) in register, user_form.save() in
\* user_create: the INSERT, which the unique constraint on the username
\* rejects with IntegrityError; neither view catches it.
create_user(a) ==
    /\ acct[a].pc = "create_user"
    /\ FreeKeys # {}
    /\ IF UsernameTaken(acct[a].username)
       THEN /\ AcctFinish(a, "server_error")
            /\ UNCHANGED users
       ELSE /\ users' = [users EXCEPT ![NewKey] =
                    [exists |-> TRUE, username |-> acct[a].username]]
            /\ acct' = [acct EXCEPT ![a].pc = "create_customer",
                                    ![a].user = NewKey]
    /\ UNCHANGED <<products, customers, orders, session, req,
                   served, response, categories, mgmt>>

\* Customer.objects.create(user=user) in register, customer.save() of the
\* new profile in user_create.
create_customer(a) ==
    /\ acct[a].pc = "create_customer"
    /\ IF ProfilesOf(acct[a].user) # {}
       THEN \* the OneToOneField's unique constraint: IntegrityError
            /\ AcctFinish(a, "server_error")
            /\ UNCHANGED customers
       ELSE /\ customers' = Append(customers,
                    [user |-> acct[a].user,
                     address |-> IF acct[a].view = "register"
                                 THEN BlankAddress ELSE acct[a].address])
            /\ AcctFinish(a, IF acct[a].view = "register"
                             THEN "registered" ELSE "created")
    /\ UNCHANGED <<products, orders, session, req, served,
                   users, response, categories, mgmt>>

\* user_form.is_valid() of user_update: the username is free, or is the
\* user's own.
UsernameValidFor(u, username) ==
    \A v \in UserKeys \ {u} : ~(users[v].exists /\ users[v].username = username)

\* user_update from the profile on: a GET renders the form, a POST
\* validates the forms.
AfterProfile(slot) ==
    IF slot.method = "GET"
    THEN [slot EXCEPT !.pc = "done", !.result = "form"]
    ELSE IF UsernameValidFor(slot.user, slot.username)
    THEN [slot EXCEPT !.pc = "save_user"]
    ELSE [slot EXCEPT !.pc = "done", !.result = "form_errors"]

\* user_update up to its first write: get_object_or_404(User, id=id) and
\* try: customer = user.customer_profile.
user_update(a, u, method, username, address) ==
    /\ Serve
    /\ AcctSlot(a)
    /\ users[u].exists
    /\ LET start == [IdleAcct EXCEPT !.view = "user_update", !.method = method,
                                     !.username = username, !.user = u,
                                     !.address = address]
       IN acct' = [acct EXCEPT ![a] =
            IF ProfilesOf(u) # {} THEN AfterProfile(start)
            ELSE [start EXCEPT !.pc = "get_or_create"]]
    /\ Respond("user_update", "accepted")
    /\ UNCHANGED <<products, customers, orders, session, req,
                   users, categories, mgmt>>

\* except: customer = Customer.objects.create(user=user), run for a GET as
\* for a POST.
user_update_create_customer(a) ==
    /\ acct[a].pc = "get_or_create"
    /\ IF ProfilesOf(acct[a].user) # {}
       THEN \* the OneToOneField's unique constraint: IntegrityError
            /\ AcctFinish(a, "server_error")
            /\ UNCHANGED customers
       ELSE /\ customers' = Append(customers, [user |-> acct[a].user,
                                                address |-> BlankAddress])
            /\ acct' = [acct EXCEPT ![a] = AfterProfile(@)]
    /\ UNCHANGED <<products, orders, session, req, served,
                   users, response, categories, mgmt>>

\* user = user_form.save()
user_update_save(a) ==
    /\ acct[a].pc = "save_user"
    /\ IF UsernameValidFor(acct[a].user, acct[a].username)
       THEN /\ users' = [users EXCEPT
                    ![acct[a].user].username = acct[a].username]
            /\ acct' = [acct EXCEPT ![a].pc = "save_customer"]
       ELSE \* the unique constraint on the username: IntegrityError
            /\ AcctFinish(a, "server_error")
            /\ UNCHANGED users
    /\ UNCHANGED <<products, customers, orders, session, req,
                   served, response, categories, mgmt>>

\* customer_form.save(): the six fields of the form are written to the
\* Customer row of the user.
user_update_save_customer(a) ==
    /\ acct[a].pc = "save_customer"
    /\ customers' = [c \in 1..Len(customers) |->
            IF c \in ProfilesOf(acct[a].user)
            THEN [customers[c] EXCEPT !.address = acct[a].address]
            ELSE customers[c]]
    /\ AcctFinish(a, "updated")
    /\ UNCHANGED <<products, orders, session, req, served, users,
                   response, categories, mgmt>>

\* ------------------------------------------------------------ request forgery
\* csrf_failure with the token validated after the view has run: the POST to
\* product_delete has removed its product when the 403 is answered.
csrf_failure_after_view(view) ==
    /\ Serve
    /\ Respond(view, "forbidden")
    /\ products' = IF view = "product_delete"
                   THEN [products EXCEPT ![1] = NoRow] ELSE products
    /\ UNCHANGED <<customers, orders, session, req, users,
                   acct, categories, mgmt>>

\* A POST whose anti-forgery token is missing or does not match is answered
\* 403 before the view runs.
csrf_failure(view) ==
    /\ Serve
    /\ Respond(view, "forbidden")
    /\ UNCHANGED <<products, customers, orders, session, req,
                   users, acct, categories, mgmt>>

\* ------------------------------------------------------------ checkout
\* CheckoutEntry without the empty-cart check.
CheckoutEntryNoEmptyCheck(s, method) ==
    LET cart == session[s].cart
        start == [IdleReq EXCEPT !.seq = served + 1, !.sid = s,
                                 !.user = session[s].user]
    IN  IF session[s].user = Anonymous
        THEN [start EXCEPT !.pc = "done", !.result = "login"]
        ELSE IF method = "POST"
        THEN [start EXCEPT !.pc = "profile", !.cart = cart,
                           !.total = CartTotal(cart),
                           !.overlap = (\E q \in Requests : InFlight(q))]
        ELSE [start EXCEPT !.pc = "done", !.result = "form",
                           !.cart = cart, !.total = CartTotal(cart)]

\* CheckoutEntry without the login_required decorator.
CheckoutEntryNoLogin(s, method) ==
    LET cart == session[s].cart
        start == [IdleReq EXCEPT !.seq = served + 1, !.sid = s,
                                 !.user = session[s].user]
    IN  IF cart = <<>>
        THEN [start EXCEPT !.pc = "done", !.result = "cart_empty"]
        ELSE IF method = "POST"
        THEN [start EXCEPT !.pc = "profile", !.cart = cart,
                           !.total = CartTotal(cart),
                           !.overlap = (\E q \in Requests : InFlight(q))]
        ELSE [start EXCEPT !.pc = "done", !.result = "form",
                           !.cart = cart, !.total = CartTotal(cart)]

\* The checkout view up to its first database statement: login_required, the
\* empty-cart check, the total, and the branch on the method.
CheckoutEntry(s, method) ==
    LET cart == session[s].cart
        start == [IdleReq EXCEPT !.seq = served + 1, !.sid = s,
                                 !.user = session[s].user]
    IN  IF session[s].user = Anonymous
        THEN [start EXCEPT !.pc = "done", !.result = "login"]
        ELSE IF cart = <<>>
        THEN [start EXCEPT !.pc = "done", !.result = "cart_empty"]
        ELSE IF method = "POST"
        THEN [start EXCEPT !.pc = "profile", !.cart = cart,
                           !.total = CartTotal(cart),
                           !.overlap = (\E q \in Requests : InFlight(q))]
        ELSE [start EXCEPT !.pc = "done", !.result = "form",
                           !.cart = cart, !.total = CartTotal(cart)]

checkout(r, s, method, form) ==
    /\ Serve
    /\ ~InFlight(r)
    /\ \A q \in Requests : ~InFlight(q) => Slot[r] <= Slot[q]
    /\ req' = [q \in Requests |->
            IF q = r
            THEN IF CheckoutEntry(s, method).pc = "profile"
                 THEN [CheckoutEntry(s, method) EXCEPT !.form = form]
                 ELSE CheckoutEntry(s, method)
            ELSE IF InFlight(q) /\ CheckoutEntry(s, method).pc = "profile"
            THEN [req[q] EXCEPT !.overlap = TRUE]
            ELSE req[q]]
    /\ Respond("checkout", "accepted")
    /\ UNCHANGED <<products, customers, orders, session, users,
                   acct, categories, mgmt>>

\* try: customer = request.user.customer_profile
checkout_profile(r) ==
    /\ req[r].pc = "profile"
    /\ LET found == ProfilesOf(req[r].user)
       IN req' = [req EXCEPT ![r] =
            IF found # {}
            THEN [@ EXCEPT !.pc = "save_customer",
                           !.customer = CHOOSE c \in found : TRUE,
                           !.address =
                               customers[CHOOSE c \in found : TRUE].address]
            ELSE [@ EXCEPT !.pc = "create_customer"]]
    /\ UNCHANGED <<products, customers, orders, session, served, users,
                   acct, response, categories, mgmt>>

\* checkout_create_customer on a Customer.user that is not unique (a
\* ForeignKey in place of the OneToOneField): the INSERT always succeeds.
checkout_create_customer_unchecked(r) ==
    /\ req[r].pc = "create_customer"
    /\ customers' = Append(customers, [user |-> req[r].user,
                                       address |-> BlankAddress])
    /\ req' = [req EXCEPT ![r].pc = "save_customer",
                          ![r].customer = Len(customers) + 1]
    /\ UNCHANGED <<products, orders, session, served, users,
                   acct, response, categories, mgmt>>

\* except: customer = Customer.objects.create(user=request.user)
checkout_create_customer(r) ==
    /\ req[r].pc = "create_customer"
    /\ LET user == req[r].user
       IN IF ProfilesOf(user) # {}
          THEN \* the OneToOneField's unique constraint: IntegrityError
               /\ Finish(r, "server_error")
               /\ UNCHANGED customers
          ELSE /\ customers' = Append(customers, [user |-> user,
                                            address |-> BlankAddress])
               /\ req' = [req EXCEPT ![r].pc = "save_customer",
                                     ![r].customer = Len(customers) + 1]
    /\ UNCHANGED <<products, orders, session, served, users,
                   acct, response, categories, mgmt>>

\* customer.<field> = request.POST.get('<field>', customer.<field>) for the
\* six fields, on the Customer object read before; customer.save() writes
\* every column of the row.
checkout_save_customer(r) ==
    /\ req[r].pc = "save_customer"
    /\ customers' = [customers EXCEPT ![req[r].customer].address =
            [f \in AddressFields |->
                PostGet(req[r].form, f, req[r].address[f])]]
    /\ req' = [req EXCEPT ![r].pc = "create_order"]
    /\ UNCHANGED <<products, orders, session, served, users,
                   acct, response, categories, mgmt>>

\* checkout_create_order that also empties the session cart, before the loop
\* over the cart has run.
checkout_create_order_clearing(r) ==
    /\ req[r].pc = "create_order"
    /\ orders' = Append(orders, [customer |-> req[r].customer,
                                 total_amount |-> req[r].total,
                                 status |-> "pending",
                                 products |-> {}])
    /\ req' = [req EXCEPT ![r].pc = "get_product",
                          ![r].order = Len(orders) + 1,
                          ![r].idx = 1]
    /\ session' = [session EXCEPT ![req[r].sid].cart = <<>>]
    /\ UNCHANGED <<products, customers, served, users, acct,
                   response, categories, mgmt>>

\* order = Order.objects.create(customer=..., total_amount=total,
\* status='pending').  The float total is a whole number of hundredths below
\* 10^10, which the DecimalField (max_digits=10, decimal_places=2) stores
\* exactly.
checkout_create_order(r) ==
    /\ req[r].pc = "create_order"
    /\ orders' = Append(orders, [customer |-> req[r].customer,
                                 total_amount |-> req[r].total,
                                 status |-> "pending",
                                 products |-> {}])
    /\ req' = [req EXCEPT ![r].pc = "get_product",
                          ![r].order = Len(orders) + 1,
                          ![r].idx = 1]
    /\ UNCHANGED <<products, customers, session, served, users,
                   acct, response, categories, mgmt>>

\* The product id of the loop's current iteration.
CurrentId(r) == IntId(req[r].cart[req[r].idx].id)

\* checkout_get_product with a handler that empties the cart when the product
\* is gone.
checkout_get_product_clearing(r) ==
    /\ req[r].pc = "get_product"
    /\ IF products[CurrentId(r)].exists
       THEN /\ req' = [req EXCEPT ![r].pc = "add_product",
                                  ![r].product = products[CurrentId(r)]]
            /\ UNCHANGED session
       ELSE /\ Finish(r, "server_error")
            /\ session' = [session EXCEPT ![req[r].sid].cart = <<>>]
    /\ UNCHANGED <<products, customers, orders, served, users,
                   acct, response, categories, mgmt>>

\* product = Products.objects.get(id=product_id)
checkout_get_product(r) ==
    /\ req[r].pc = "get_product"
    /\ IF products[CurrentId(r)].exists
       THEN req' = [req EXCEPT ![r].pc = "add_product",
                               ![r].product = products[CurrentId(r)]]
       ELSE \* Products.DoesNotExist is not caught
            Finish(r, "server_error")
    /\ UNCHANGED <<products, customers, orders, session, served, users,
                   acct, response, categories, mgmt>>

\* order.products.add(product)
checkout_add_product(r) ==
    /\ req[r].pc = "add_product"
    /\ IF products[CurrentId(r)].exists
       THEN /\ orders' = [orders EXCEPT
                    ![req[r].order].products = @ \cup {CurrentId(r)}]
            /\ req' = [req EXCEPT ![r].pc = "save_product"]
       ELSE \* the link row's foreign key has no target: IntegrityError
            /\ Finish(r, "server_error")
            /\ UNCHANGED orders
    /\ UNCHANGED <<products, customers, session, served, users,
                   acct, response, categories, mgmt>>

\* The stock product.save() writes:
\* product.stock -= cart[str(product_id)]['quantity']
NewStock(read, quantity) == read - quantity

\* product.stock -= quantity; product.save(): the row as it was read is
\* written back with the new stock (an UPDATE, or an INSERT when the row
\* has been deleted meanwhile).
checkout_save_product(r) ==
    /\ req[r].pc = "save_product"
    /\ IF CategoryValid(req[r].product.category)
       THEN /\ LET key == StrId(CurrentId(r))
                   quantity == CartQuantity(req[r].cart, key)
               IN products' = [products EXCEPT ![CurrentId(r)] =
                    [exists |-> TRUE, name |-> req[r].product.name,
                     price |-> req[r].product.price,
                     stock |-> NewStock(req[r].product.stock, quantity),
                     category |-> req[r].product.category]]
            /\ req' = [req EXCEPT
                    ![r].pc = IF req[r].idx = Len(req[r].cart)
                              THEN "clear_cart" ELSE "get_product",
                    ![r].idx = @ + 1,
                    ![r].exact = /\ @
                                 /\ products[CurrentId(r)].exists
                                 /\ products[CurrentId(r)].stock
                                      = req[r].product.stock]
       ELSE \* the Category of the row read is gone: IntegrityError
            /\ Finish(r, "server_error")
            /\ UNCHANGED products
    /\ UNCHANGED <<customers, orders, session, served, users,
                   acct, response, categories, mgmt>>

\* request.session['cart'] = {}; the session is saved with the response,
\* unless its row is gone (SessionInterrupted).
checkout_clear_cart(r) ==
    /\ req[r].pc = "clear_cart"
    /\ IF req[r].stale
       THEN /\ Finish(r, "session_interrupted")
            /\ UNCHANGED session
       ELSE /\ session' = [session EXCEPT ![req[r].sid].hasCart = TRUE,
                                          ![req[r].sid].cart = <<>>]
            /\ Finish(r, "order_placed")
    /\ UNCHANGED <<products, customers, orders, served, users,
                   acct, response, categories, mgmt>>

\* ------------------------------------------------------------ specification
Next ==
    \/ \E s \in Sessions, id \in ProductIds, q \in AddQuantities :
            add_to_cart(s, id, q)
    \/ \E s \in Sessions, id \in ProductIds : remove_from_cart(s, id)
    \/ \E s \in Sessions, u \in Users : login_view(s, u)
    \/ \E s \in Sessions : logout_view(s)
    \/ \E id \in ProductIds :
            \E p \in Prices \ {products[id].price} :
                product_update(id, products[id].name, p, products[id].stock,
                               products[id].category)
    \/ \E id \in ProductIds :
            \E n \in StockInputs \ {products[id].stock} :
                product_update(id, products[id].name, products[id].price, n,
                               products[id].category)
    \/ \E id \in ProductIds : product_delete(id)
    \/ \E o \in 1..MaxRequests, st \in StatusInputs : order_update_status(o, st)
    \/ \E s \in Sessions : cart_view(s)
    \/ \E v \in PostViews : csrf_failure(v)
    \/ \E r \in Requests, s \in Sessions, m \in Methods : checkout(r, s, m, NoFields)
    \/ \E r \in Requests : checkout_profile(r)
    \/ \E r \in Requests : checkout_create_customer(r)
    \/ \E r \in Requests : checkout_save_customer(r)
    \/ \E r \in Requests : checkout_create_order(r)
    \/ \E r \in Requests : checkout_get_product(r)
    \/ \E r \in Requests : checkout_add_product(r)
    \/ \E r \in Requests : checkout_save_product(r)
    \/ \E r \in Requests : checkout_clear_cart(r)

Spec == Init /\ [][Next]_vars

\* ------------------------------------------------------------ cart only
\* The views that work on the session cart alone, and the deletion of the
\* products they look up.
NextCart ==
    \/ \E s \in Sessions, id \in ProductIds, q \in AddQuantities :
            add_to_cart(s, id, q)
    \/ \E s \in Sessions, id \in ProductIds : remove_from_cart(s, id)
    \/ \E s \in Sessions : cart_view(s)
    \/ \E id \in ProductIds : product_delete(id)

SpecCart == Init /\ [][NextCart]_vars

\* ------------------------------------------------------------ checkout races
\* Two sessions that have each put one unit of product 1 (one unit in stock)
\* and one or two units of product 2 (three in stock) in their carts, and
\* then only check out.
RaceStock == [i \in ProductIds |-> IF i = 1 THEN 1 ELSE 3]
RaceQuantities == {1, 2}

RaceCart(first, quantity) ==
    LET entry(i) == [id |-> StrId(i), name |-> InitialName[i],
                     price |-> PriceStr(InitialPrice[i]),
                     quantity |-> IF i = 1 THEN 1 ELSE quantity]
    IN  <<entry(first), entry(3 - first)>>

InitRace ==
    /\ products = [i \in ProductIds |->
                     [exists |-> TRUE, name |-> InitialName[i],
                      price |-> InitialPrice[i],
                      stock |-> RaceStock[i],
                      category |-> InitialCategory[i]]]
    /\ customers = <<[user |-> "alice", address |-> BlankAddress]>>
    /\ orders = <<>>
    /\ \E first \in [Sessions -> ProductIds],
          quantity \in [Sessions -> RaceQuantities] :
          session = [s \in Sessions |->
                       [user |-> IF s = "s1" THEN "alice" ELSE "bob",
                        hasCart |-> TRUE,
                        cart |-> RaceCart(first[s], quantity[s])]]
    /\ req = [r \in Requests |-> IdleReq]
    /\ served = 0
    /\ users = [u \in UserKeys |->
                  IF u \in Users THEN [exists |-> TRUE, username |-> u]
                  ELSE NoUser]
    /\ acct = [a \in Requests |-> IdleAcct]
    /\ response = [view |-> "none", status |-> "none"]
    /\ categories = CategoryIds
    /\ mgmt = [m \in Requests |-> IdleMgmt]

NextRace ==
    \/ \E r \in Requests, s \in Sessions : checkout(r, s, "POST", NoFields)
    \/ \E r \in Requests : checkout_profile(r)
    \/ \E r \in Requests : checkout_create_customer(r)
    \/ \E r \in Requests : checkout_save_customer(r)
    \/ \E r \in Requests : checkout_create_order(r)
    \/ \E r \in Requests : checkout_get_product(r)
    \/ \E r \in Requests : checkout_add_product(r)
    \/ \E r \in Requests : checkout_save_product(r)
    \/ \E r \in Requests : checkout_clear_cart(r)

SpecRace == InitRace /\ [][NextRace]_vars

\* ------------------------------------------------------------ accounts
\* The account views, and checkouts of a session that holds a cart and is
\* logged in as bob, who has no profile yet (only alice has one); the other
\* session is not logged in.
InitAccounts ==
    /\ products = [i \in ProductIds |->
                     [exists |-> TRUE, name |-> InitialName[i],
                      price |-> InitialPrice[i], stock |-> 3,
                      category |-> InitialCategory[i]]]
    /\ customers = <<[user |-> "alice", address |-> BlankAddress]>>
    /\ orders = <<>>
    /\ session = [s \in Sessions |->
                    IF s = "s1"
                    THEN [user |-> "bob", hasCart |-> TRUE,
                          cart |-> CartAdd(<<>>, 2, products[2], 1)]
                    ELSE [user |-> Anonymous, hasCart |-> FALSE,
                          cart |-> <<>>]]
    /\ req = [r \in Requests |-> IdleReq]
    /\ served = 0
    /\ users = [u \in UserKeys |->
                  IF u \in Users THEN [exists |-> TRUE, username |-> u]
                  ELSE NoUser]
    /\ acct = [a \in Requests |-> IdleAcct]
    /\ response = [view |-> "none", status |-> "none"]
    /\ categories = CategoryIds
    /\ mgmt = [m \in Requests |-> IdleMgmt]

NextAccounts ==
    \/ \E a \in Requests, n \in Usernames : register(a, n)
    \/ \E a \in Requests, n \in Usernames : user_create(a, n, BlankAddress)
    \/ \E a \in Requests : create_user(a)
    \/ \E a \in Requests : create_customer(a)
    \/ \E a \in Requests, u \in UserKeys :
            user_update(a, u, "GET", users[u].username, BlankAddress)
    \/ \E a \in Requests, u \in UserKeys, n \in Usernames :
            user_update(a, u, "POST", n, BlankAddress)
    \/ \E a \in Requests : user_update_create_customer(a)
    \/ \E a \in Requests : user_update_save(a)
    \/ \E a \in Requests : user_update_save_customer(a)
    \/ \E r \in Requests, s \in Sessions : checkout(r, s, "POST", NoFields)
    \/ \E r \in Requests : checkout_profile(r)
    \/ \E r \in Requests : checkout_create_customer(r)
    \/ \E r \in Requests : checkout_save_customer(r)
    \/ \E r \in Requests : checkout_create_order(r)
    \/ \E r \in Requests : checkout_get_product(r)
    \/ \E r \in Requests : checkout_add_product(r)
    \/ \E r \in Requests : checkout_save_product(r)
    \/ \E r \in Requests : checkout_clear_cart(r)

SpecAccounts == InitAccounts /\ [][NextAccounts]_vars

\* ------------------------------------------------------------ catalogue
\* Category and product management next to a checkout: the products are in
\* any category or none, and alice's session holds a cart with product 1.
InitCatalog ==
    /\ \E of \in [ProductIds -> CategoryIds \cup {NoCategory}] :
          products = [i \in ProductIds |->
                        [exists |-> TRUE, name |-> InitialName[i],
                      price |-> InitialPrice[i],
                         stock |-> 3, category |-> of[i]]]
    /\ customers = <<[user |-> "alice", address |-> BlankAddress]>>
    /\ orders = <<>>
    /\ session = [s \in Sessions |->
                    IF s = "s1"
                    THEN [user |-> "alice", hasCart |-> TRUE,
                          cart |-> CartAdd(<<>>, 1, products[1], 1)]
                    ELSE [user |-> "bob", hasCart |-> FALSE, cart |-> <<>>]]
    /\ req = [r \in Requests |-> IdleReq]
    /\ served = 0
    /\ users = [u \in UserKeys |->
                  IF u \in Users THEN [exists |-> TRUE, username |-> u]
                  ELSE NoUser]
    /\ acct = [a \in Requests |-> IdleAcct]
    /\ response = [view |-> "none", status |-> "none"]
    /\ categories = CategoryIds
    /\ mgmt = [m \in Requests |-> IdleMgmt]

NextCatalog ==
    \/ \E m \in Requests, c \in CategoryIds, method \in Methods :
            category_delete(m, c, method)
    \/ \E m \in Requests : category_delete_commit(m)
    \/ \E id \in ProductIds :
            \E c \in (CategoryIds \cup {NoCategory}) \ {products[id].category} :
                product_update(id, products[id].name, products[id].price,
                               products[id].stock, c)
    \/ \E id \in ProductIds : product_delete(id)
    \/ \E r \in Requests, s \in Sessions : checkout(r, s, "POST", NoFields)
    \/ \E r \in Requests : checkout_profile(r)
    \/ \E r \in Requests : checkout_save_customer(r)
    \/ \E r \in Requests : checkout_create_order(r)
    \/ \E r \in Requests : checkout_get_product(r)
    \/ \E r \in Requests : checkout_add_product(r)
    \/ \E r \in Requests : checkout_save_product(r)
    \/ \E r \in Requests : checkout_clear_cart(r)

SpecCatalog == InitCatalog /\ [][NextCatalog]_vars

\* ------------------------------------------------------------ addresses
\* alice is logged in on both sessions with a cart of one product, and her
\* Customer row has an address; checkouts submit any of the forms, while
\* staff save user_update forms for alice.
InitAddress ==
    /\ products = [i \in ProductIds |->
                     [exists |-> TRUE, name |-> InitialName[i],
                      price |-> InitialPrice[i],
                      stock |-> 3, category |-> InitialCategory[i]]]
    /\ customers = <<[user |-> "alice", address |-> StoredAddress]>>
    /\ orders = <<>>
    /\ session = [s \in Sessions |->
                    [user |-> "alice", hasCart |-> TRUE,
                     cart |-> CartAdd(<<>>, 1, products[1], 1)]]
    /\ req = [r \in Requests |-> IdleReq]
    /\ served = 0
    /\ users = [u \in UserKeys |->
                  IF u \in Users THEN [exists |-> TRUE, username |-> u]
                  ELSE NoUser]
    /\ acct = [a \in Requests |-> IdleAcct]
    /\ response = [view |-> "none", status |-> "none"]
    /\ categories = CategoryIds
    /\ mgmt = [m \in Requests |-> IdleMgmt]

NextAddress ==
    \/ \E r \in Requests, s \in Sessions, form \in CheckoutForms :
            checkout(r, s, "POST", form)
    \/ \E r \in Requests : checkout_profile(r)
    \/ \E r \in Requests : checkout_save_customer(r)
    \/ \E r \in Requests : checkout_create_order(r)
    \/ \E r \in Requests : checkout_get_product(r)
    \/ \E r \in Requests : checkout_add_product(r)
    \/ \E r \in Requests : checkout_save_product(r)
    \/ \E r \in Requests : checkout_clear_cart(r)
    \/ \E a \in Requests, address \in CustomerForms :
            user_update(a, "alice", "POST", "alice", address)
    \/ \E a \in Requests : user_update_save(a)
    \/ \E a \in Requests : user_update_save_customer(a)

SpecAddress == InitAddress /\ [][NextAddress]_vars

\* ------------------------------------------------------------ snapshots
\* alice's cart holds product 1, inserted at the catalogue's name and price;
\* staff rename and reprice products while carts are filled and checked out.
InitSnapshot ==
    /\ products = [i \in ProductIds |->
                     [exists |-> TRUE, name |-> InitialName[i],
                      price |-> InitialPrice[i], stock |-> 3,
                      category |-> InitialCategory[i]]]
    /\ customers = <<[user |-> "alice", address |-> BlankAddress]>>
    /\ orders = <<>>
    /\ session = [s \in Sessions |->
                    IF s = "s1"
                    THEN [user |-> "alice", hasCart |-> TRUE,
                          cart |-> CartAdd(<<>>, 1, products[1], 1)]
                    ELSE [user |-> "bob", hasCart |-> FALSE, cart |-> <<>>]]
    /\ req = [r \in Requests |-> IdleReq]
    /\ served = 0
    /\ users = [u \in UserKeys |->
                  IF u \in Users THEN [exists |-> TRUE, username |-> u]
                  ELSE NoUser]
    /\ acct = [a \in Requests |-> IdleAcct]
    /\ response = [view |-> "none", status |-> "none"]
    /\ categories = CategoryIds
    /\ mgmt = [m \in Requests |-> IdleMgmt]

NextSnapshot ==
    \/ \E s \in Sessions, id \in ProductIds, q \in {1, 3} :
            add_to_cart(s, id, q)
    \/ \E id \in ProductIds, name \in NameInputs, p \in Prices :
            product_update(id, name, p, products[id].stock,
                           products[id].category)
    \/ \E r \in Requests, s \in Sessions : checkout(r, s, "POST", NoFields)
    \/ \E r \in Requests : checkout_profile(r)
    \/ \E r \in Requests : checkout_create_customer(r)
    \/ \E r \in Requests : checkout_save_customer(r)
    \/ \E r \in Requests : checkout_create_order(r)
    \/ \E r \in Requests : checkout_get_product(r)
    \/ \E r \in Requests : checkout_add_product(r)
    \/ \E r \in Requests : checkout_save_product(r)
    \/ \E r \in Requests : checkout_clear_cart(r)

SpecSnapshot == InitSnapshot /\ [][NextSnapshot]_vars

\* ------------------------------------------------------------ claims
Done(r) == req[r].pc = "done"
Placed(r) == Done(r) /\ req[r].result = "order_placed"
Failed(r) == Done(r) /\ req[r].result = "server_error"

\* The cart keys whose product.save() the request has executed.
Saved(r) == {req[r].cart[i].id : i \in 1..(req[r].idx - 1)}

\* Two finished checkout POSTs of different sessions that overlapped and
\* both asked for quantity units of product id.
RacedFor(r1, r2, id) ==
    /\ r1 # r2 /\ Done(r1) /\ Done(r2)
    /\ req[r1].sid # req[r2].sid
    /\ req[r1].overlap /\ req[r2].overlap
    /\ StrId(id) \in CartKeys(req[r1].cart)
    /\ StrId(id) \in CartKeys(req[r2].cart)

\* C1: when two checkouts of different sessions run concurrently and each
\* asks for the last unit of a product whose stock is 1, exactly one places
\* its order, the other is rejected for insufficient stock, and the stock is
\* never negative.
C1_LastUnitSoldOnce ==
    /\ \A id \in ProductIds : products[id].stock >= 0
    /\ \A r1, r2 \in Requests, id \in ProductIds :
          (RaceStock[id] = 1 /\ RacedFor(r1, r2, id))
          => \/ Placed(r1) /\ req[r2].result = "insufficient_stock"
             \/ Placed(r2) /\ req[r1].result = "insufficient_stock"

\* C2: the stock of a product is never negative: a checkout POST whose cart
\* quantity for a product exceeds the stock of that product writes no stock
\* and inserts no order.
C2_StockNeverNegative ==
    /\ \A id \in ProductIds : products[id].stock >= 0
    /\ \A r \in Requests :
          (req[r].pc = "save_product"
             /\ CartQuantity(req[r].cart, StrId(CurrentId(r)))
                  > req[r].product.stock)
          => req[r].order = 0

\* C3: a checkout POST that fails (a product of the cart is gone, or the
\* customer profile cannot be resolved) has inserted no Order row and has
\* written no product's stock, wherever the missing product is in the cart.
C3_FailedCheckoutIsAtomic ==
    \A r \in Requests :
        Failed(r) => req[r].order = 0 /\ Saved(r) = {}

\* C4: decrements of the same product by two concurrent checkouts of
\* different sessions serialize: when both have placed their orders and the
\* stock sufficed for both, the stock is the initial stock less the sum of
\* the two cart quantities.
C4_ConcurrentDecrementsSerialize ==
    \A r1, r2 \in Requests, id \in ProductIds :
        LET q1 == CartQuantity(req[r1].cart, StrId(id))
            q2 == CartQuantity(req[r2].cart, StrId(id))
        IN  (RacedFor(r1, r2, id) /\ Placed(r1) /\ Placed(r2)
               /\ q1 + q2 <= RaceStock[id])
            => products[id].stock = RaceStock[id] - (q1 + q2)

RECURSIVE SnapshotSum(_)
\* The sum of unit price snapshot times quantity over a cart's entries, in
\* hundredths.
SnapshotSum(cart) ==
    IF cart = <<>> THEN 0
    ELSE (100 * Head(cart).price[1] + Head(cart).price[2]) * Head(cart).quantity
         + SnapshotSum(Tail(cart))

\* C5: the total_amount of the Order a checkout POST creates is the sum of
\* (price snapshot x quantity) over the entries the session cart held when
\* the POST arrived, and no later step changes the total_amount of an
\* existing Order.
C5_OrderTotalIsSnapshotSum ==
    [][/\ \A r \in Requests :
            (req'[r].seq # req[r].seq /\ req'[r].pc = "profile")
            => req'[r].total = SnapshotSum(session[req'[r].sid].cart)
       /\ \A r \in Requests :
            (req[r].pc = "create_order" /\ req'[r].pc = "get_product")
            => /\ Len(orders') = Len(orders) + 1
               /\ req'[r].order = Len(orders')
               /\ orders'[Len(orders')].total_amount
                    = SnapshotSum(req[r].cart)
       /\ \A o \in 1..Len(orders) :
            /\ o <= Len(orders')
            /\ orders'[o].total_amount = orders[o].total_amount]_vars

\* An order has been placed at cart prices that differ from the catalogue's.
C5_Witness ==
    \E r \in Requests :
        /\ Placed(r)
        /\ orders[req[r].order].total_amount = SnapshotSum(req[r].cart)
        /\ \E i \in 1..Len(req[r].cart) :
              /\ products[IntId(req[r].cart[i].id)].exists
              /\ PriceStr(products[IntId(req[r].cart[i].id)].price)
                   # req[r].cart[i].price

\* C6: a checkout POST that placed its order and overlapped no other
\* checkout has lowered the stored stock of each product of its cart by
\* exactly the cart quantity.
C6_CheckoutDecrementsByCartQuantity ==
    \A r \in Requests :
        (Placed(r) /\ ~req[r].overlap) => req[r].exact

\* The cart after add_to_cart(id, q1) and then add_to_cart(id, q2).
AddTwice(cart, id, q1, q2) ==
    CartAdd(CartAdd(cart, id, products[id], q1), id, products[id], q2)

EntriesFor(cart, key) == {i \in 1..Len(cart) : cart[i].id = key}

\* C7 as stated: in any session, add_to_cart(p, q1) and then
\* add_to_cart(p, q2) leave exactly one entry for p, of quantity q1 + q2.
C7_AddTwiceGivesSum ==
    \A s \in Sessions, id \in ProductIds, q1, q2 \in AddQuantities :
        products[id].exists
        => LET after == AddTwice(session[s].cart, id, q1, q2)
           IN  /\ Cardinality(EntriesFor(after, StrId(id))) = 1
               /\ CartQuantity(after, StrId(id)) = q1 + q2

\* C7 as amended: in any session, add_to_cart(p, q1) and then
\* add_to_cart(p, q2) leave exactly one entry for p, whose quantity is the
\* quantity the cart held for p before (none counting as 0) plus q1 + q2.
C7_AddTwiceAddsSum ==
    \A s \in Sessions, id \in ProductIds, q1, q2 \in AddQuantities :
        products[id].exists
        => LET after == AddTwice(session[s].cart, id, q1, q2)
           IN  /\ Cardinality(EntriesFor(after, StrId(id))) = 1
               /\ CartQuantity(after, StrId(id))
                    = CartQuantity(session[s].cart, StrId(id)) + q1 + q2

\* A cart holds one entry of quantity 1 + 1: two calls for the same product.
C7_Witness ==
    \E s \in Sessions, id \in ProductIds :
        /\ Cardinality(EntriesFor(session[s].cart, StrId(id))) = 1
        /\ CartQuantity(session[s].cart, StrId(id)) = 2

\* C8: a checkout POST that places its order has inserted exactly one Order
\* row, with status pending and the Customer of the authenticated user, and
\* when it ends the products of that Order are exactly the products of the
\* cart.
C8_CheckoutCreatesTheOrder ==
    [][/\ \A r \in Requests :
            (req[r].pc = "create_order" /\ req'[r].pc = "get_product")
            => /\ Len(orders') = Len(orders) + 1
               /\ orders'[req'[r].order].status = "pending"
               /\ customers[orders'[req'[r].order].customer].user
                    = req[r].user
       /\ \A r \in Requests :
            (req[r].pc = "clear_cart" /\ req'[r].result = "order_placed")
            => orders'[req[r].order].products
                 = {IntId(k) : k \in CartKeys(req[r].cart)}]_vars

\* C9 as stated: a checkout request (GET or POST) on a session whose cart is
\* empty or absent is answered with the cart-empty redirect and changes no
\* product, customer or order.
C9_EmptyCartCheckoutRejected ==
    [][\A r \in Requests :
          (req'[r].seq # req[r].seq /\ session[req'[r].sid].cart = <<>>)
          => /\ req'[r].pc = "done" /\ req'[r].result = "cart_empty"
             /\ UNCHANGED <<products, customers, orders>>]_vars

\* C9 as amended: a checkout request (GET or POST) of an authenticated user
\* on a session whose cart is empty or absent is answered with the
\* cart-empty redirect and changes no product, customer or order.
C9_AuthenticatedEmptyCartCheckoutRejected ==
    [][\A r \in Requests :
          (/\ req'[r].seq # req[r].seq
           /\ session[req'[r].sid].user # Anonymous
           /\ session[req'[r].sid].cart = <<>>)
          => /\ req'[r].pc = "done" /\ req'[r].result = "cart_empty"
             /\ UNCHANGED <<products, customers, orders>>]_vars

\* A checkout on an empty cart has been answered with the cart-empty
\* redirect.
C9_Witness ==
    \E r \in Requests :
        /\ Done(r) /\ req[r].result = "cart_empty"
        /\ req[r].user # Anonymous

\* C10: no step of a checkout other than the one that places the order
\* writes the session: when a checkout POST fails partway, the session cart
\* holds the entries and quantities it held before.
C10_FailedCheckoutKeepsCart ==
    [][\A r \in Requests :
          (/\ \/ req'[r].seq # req[r].seq
              \/ served' = served /\ req'[r] # req[r]
           /\ req'[r].result # "order_placed")
          => session' = session]_vars

\* A checkout POST has failed after inserting its Order, and the session
\* still holds the cart the request read.
C10_Witness ==
    \E r \in Requests :
        /\ Failed(r) /\ req[r].order # 0
        /\ req[r].cart # <<>>
        /\ session[req[r].sid].cart = req[r].cart

\* C11: the step that places the order of a checkout POST leaves the session
\* cart empty whatever it held, and no other step of a checkout writes the
\* session: the cart is written once per checkout, by its last step, after
\* the Order row was inserted and after the product.save() of every entry
\* of the cart.
C11_CartClearedOnceAtTheEnd ==
    [][/\ \A r \in Requests :
            (req[r].pc = "clear_cart" /\ req'[r].result = "order_placed")
            => session'[req[r].sid].cart = <<>>
       /\ \A s \in Sessions :
            (served' = served /\ session'[s] # session[s])
            => \E r \in Requests :
                  /\ req[r].sid = s
                  /\ req[r].pc = "clear_cart"
                  /\ req'[r].pc = "done" /\ req'[r].result = "order_placed"
                  /\ req[r].order \in 1..Len(orders)
                  /\ req[r].idx = Len(req[r].cart) + 1
                  /\ session'[s].cart = <<>>]_vars

\* A checkout of a cart of two entries has placed its order, and the
\* session cart is empty.
C11_Witness ==
    \E r \in Requests :
        /\ Placed(r)
        /\ Len(req[r].cart) = 2
        /\ req[r].order \in 1..Len(orders)
        /\ session[req[r].sid].cart = <<>>

\* C12: no User ever has more than one Customer, whatever the interleaving
\* of register, user_create, user_update and checkouts (two concurrent first
\* checkouts of a user without a profile included); a request that reaches
\* its Customer INSERT when the user already has a profile fails and inserts
\* nothing.
C12_OneCustomerPerUser ==
    [][/\ \A u \in UserKeys :
            /\ Cardinality(ProfilesOf(u)) <= 1
            /\ Cardinality(ProfilesOf(u)') <= 1
       /\ \A r \in Requests :
            (/\ req[r].pc = "create_customer" /\ req'[r].pc # req[r].pc
             /\ ProfilesOf(req[r].user) # {})
            => customers' = customers /\ req'[r].result = "server_error"
       /\ \A a \in Requests :
            (/\ acct[a].pc \in {"create_customer", "get_or_create"}
             /\ acct'[a].pc # acct[a].pc
             /\ ProfilesOf(acct[a].user) # {})
            => customers' = customers /\ acct'[a].result = "server_error"]_vars

\* Two first checkouts of the same user ran concurrently: one inserted the
\* profile, the other failed on its INSERT, and the user has one Customer.
C12_Witness ==
    \E r1, r2 \in Requests :
        /\ r1 # r2
        /\ req[r1].user = req[r2].user
        /\ req[r1].customer # 0
        /\ Failed(r2) /\ req[r2].customer = 0
        /\ Cardinality(ProfilesOf(req[r1].user)) = 1

\* The statuses an Order may move to from a status.
Transitions ==
    [st \in StatusChoices |->
        CASE st = "pending" -> {"processing", "cancelled"}
          [] st = "processing" -> {"shipped", "cancelled"}
          [] st = "shipped" -> {"delivered"}
          [] OTHER -> {}]

\* C13: every change of the status of an Order follows pending ->
\* {processing, cancelled}, processing -> {shipped, cancelled}, shipped ->
\* {delivered}; delivered and cancelled are never left.
C13_StatusFollowsTransitions ==
    [][\A o \in 1..Len(orders) :
          (o <= Len(orders') /\ orders'[o].status # orders[o].status)
          => orders'[o].status \in Transitions[orders[o].status]]_vars

\* C14: every entry of every session cart has a quantity of at least 1,
\* whatever integers add_to_cart was given as quantity.
C14_CartQuantityAtLeastOne ==
    \A s \in Sessions :
        \A i \in 1..Len(session[s].cart) : session[s].cart[i].quantity >= 1

\* C15: remove_from_cart answers with its redirect in every case; on a
\* session whose cart has no entry for the product (or that has no cart) it
\* changes no cart and no record; and after any call the cart has no entry
\* for the product, so that a second call finds the cart of the first and
\* leaves it as it is.
C15_RemoveAbsentIsNoOp ==
    [][\A s \in Sessions, id \in ProductIds :
          remove_from_cart(s, id)
          => /\ response'.status = "redirect"
             /\ StrId(id) \notin CartKeys(session[s].cart)
                  => UNCHANGED <<session, products, customers, orders, users>>
             /\ StrId(id) \notin CartKeys(session'[s].cart)
             /\ CartRemove(session'[s].cart, StrId(id)) = session'[s].cart]_vars

\* remove_from_cart has answered a session that has no cart at all.
C15_Witness ==
    /\ response.view = "remove_from_cart"
    /\ response.status = "redirect"
    /\ \A s \in Sessions : ~session[s].hasCart

\* C16: no two User rows share a username, and a register request that
\* inserts no User because the username is taken (also when the other
\* registration of that username ran concurrently) answers that the username
\* exists; it does not end in an unhandled error.
C16_DuplicateUsernameIsAConflict ==
    /\ \A u, v \in UserKeys :
          (u # v /\ users[u].exists /\ users[v].exists)
          => users[u].username # users[v].username
    /\ \A a \in Requests :
          (/\ acct[a].view = "register" /\ acct[a].pc = "done"
           /\ acct[a].user = NoKey)
          => acct[a].result = "username_exists"

\* C17: a checkout request (GET or POST) on a session that is not logged in
\* is answered with the redirect to login, whatever the cart holds, and
\* changes no order, customer, product or session cart.
C17_AnonymousCheckoutRedirected ==
    [][\A r \in Requests :
          (/\ req'[r].seq # req[r].seq
           /\ session[req'[r].sid].user = Anonymous)
          => /\ req'[r].pc = "done" /\ req'[r].result = "login"
             /\ UNCHANGED <<products, customers, orders, session, users>>]_vars

\* A session that is not logged in and holds a cart asked for checkout and
\* was sent to login; the cart is still there.
C17_Witness ==
    \E r \in Requests :
        /\ Done(r) /\ req[r].result = "login"
        /\ session[req[r].sid].user = Anonymous
        /\ session[req[r].sid].cart # <<>>

C19_StatusChangedOnlyByOrderUpdate ==
    [][/\ \A o \in 1..Len(orders) :
            (o <= Len(orders') /\ orders'[o].status # orders[o].status)
            => /\ served' = served + 1
               /\ response' = [view |-> "order_update_status",
                               status |-> "redirect"]
               /\ orders'[o].status \in StatusChoices
       /\ (served' # served /\ response'.view = "order_update_status"
              /\ response'.status = "form_errors")
          => orders' = orders]_vars

\* order_update_status was given a value outside the set for an existing
\* Order, which is still pending.
C19_Witness ==
    /\ response = [view |-> "order_update_status", status |-> "form_errors"]
    /\ Len(orders) >= 1
    /\ \A o \in 1..Len(orders) : orders[o].status = "pending"

\* C20: a cart_view request leaves every session cart as it was, keys and
\* fields of every entry, and changes no product, customer, order or user
\* and no request in flight: nothing a later operation reads depends on
\* how often cart_view was called before it.
C20_CartViewReadOnly ==
    [][(served' # served /\ response'.view = "cart_view")
       => UNCHANGED <<session, products, customers, orders, users, req,
                      acct>>]_vars

\* cart_view has answered while every session held a cart with entries.
C20_Witness ==
    /\ response = [view |-> "cart_view", status |-> "ok"]
    /\ \A s \in Sessions : session[s].cart # <<>>

NoDanglingCategory ==
    \A id \in ProductIds :
        products[id].exists => CategoryValid(products[id].category)

\* C22: a category_delete POST deletes the category and every product that
\* refers to it and leaves the products of another category or of none as
\* they are, and in every state the category of a product is none or an
\* existing category.
C22_CategoryDeleteCascades ==
    [][/\ NoDanglingCategory'
       /\ \A m \in Requests :
             category_delete_commit(m)
             => LET c == mgmt[m].category
                IN /\ c \notin categories'
                   /\ \A id \in ProductIds :
                         IF products[id].exists /\ products[id].category = c
                         THEN ~products'[id].exists
                         ELSE products'[id] = products[id]]_vars
\* C23: the customer.save() of a checkout POST stores, for each of the six
\* address fields, the value submitted when the field is in the form, and
\* leaves the stored value as it is when the field is not in the form.
C23_CheckoutAddressPartialUpdate ==
    [][\A r \in Requests :
          checkout_save_customer(r)
          => \A f \in AddressFields :
                customers'[req[r].customer].address[f]
                  = PostGet(req[r].form, f,
                            customers[req[r].customer].address[f])]_vars
\* C24: an add_to_cart for a product that is in the cart changes the
\* quantity of its entry and nothing else, so the entry keeps the name and
\* the price of its first insertion; a write to a product changes no cart;
\* and the Order of a checkout is created with the sum of the entries'
\* price snapshots times their quantities.
C24_SnapshotFixedAtFirstInsertion ==
    [][/\ \A s \in Sessions, id \in ProductIds, q \in AddQuantities :
             (/\ add_to_cart(s, id, q)
              /\ products[id].exists
              /\ StrId(id) \in CartKeys(session[s].cart))
             => LET old == session[s].cart
                    new == session'[s].cart
                    at == CartIndex(old, StrId(id))
                IN /\ Len(new) = Len(old)
                   /\ new[at].name = old[at].name
                   /\ new[at].price = old[at].price
                   /\ new[at].quantity = old[at].quantity + q
                   /\ \A i \in 1..Len(old) : i # at => new[i] = old[i]
       /\ products' # products
             => \A s \in Sessions : session'[s].cart = session[s].cart
       /\ \A r \in Requests :
             checkout_create_order(r)
             => orders'[Len(orders')].total_amount = SnapshotSum(req[r].cart)]_vars

\* Two requests were served, the second an add_to_cart: a product of a
\* cart was renamed and repriced and then added again, and its entry has the
\* name and the price of the first insertion with the quantities added up.
C24_Witness ==
    /\ served = 2
    /\ response = [view |-> "add_to_cart", status |-> "redirect"]
    /\ \E s \in Sessions : \E i \in 1..Len(session[s].cart) :
          LET e == session[s].cart[i]
              row == products[IntId(e.id)]
          IN /\ row.exists
             /\ e.name = InitialName[IntId(e.id)] /\ e.name # row.name
             /\ e.price = PriceStr(InitialPrice[IntId(e.id)])
             /\ e.price # PriceStr(row.price)
             /\ e.quantity > 1

\* C25: of two checkout POSTs of one session that ran concurrently on the
\* same non-empty cart, exactly one has created an Order, and when they were
\* the only requests the stock of each product of the cart has gone down by
\* the cart quantity, once.
C25_OneOrderPerCart ==
    \A r1, r2 \in Requests :
        (/\ r1 # r2 /\ Done(r1) /\ Done(r2)
         /\ req[r1].sid = req[r2].sid
         /\ req[r1].overlap /\ req[r2].overlap
         /\ req[r1].cart = req[r2].cart /\ req[r1].cart # <<>>)
        => /\ Cardinality({r \in {r1, r2} : Placed(r)}) = 1
           /\ served = 2 => Len(orders) = 1
           /\ served = 2 =>
                \A i \in 1..Len(req[r1].cart) :
                    LET id == IntId(req[r1].cart[i].id)
                    IN products[id].stock
                         = RaceStock[id] - req[r1].cart[i].quantity
====
